---- MODULE Spec2Model ----
(***************************************************************************)
(* Extraction-and-reconciliation pipeline of PDF-Invoice-Insights          *)
(* (src/main.py): extract_field, check_duplicate_invoice, append_to_file   *)
(* and the upload batch loop that drives them; process_uploaded_files     *)
(* with extract_pdfs_from_zip; and extract_numeric_value, of which         *)
(* src/pdf_report_generator.py holds a second copy.                        *)
(*                                                                         *)
(* Values of cells and of JSON members are modelled as strings.  Two       *)
(* values that are not text are written as reserved tokens that no text    *)
(* value of the model equals: None (JSON null / Python None) and NaN (the  *)
(* float pandas puts in a cell it reads as missing).                       *)
(***************************************************************************)
EXTENDS Integers, Sequences, FiniteSets, TLC

\* ------------------------------------------------------------------ bounds
MaxUploads == 2      \* documents one process instance is handed in all
MaxClock   == 1      \* seconds the wall clock may advance
MaxRows    == 1      \* rows of the tables drawn for the merge specification
MaxFiles   == 2      \* uploads handed to process_uploaded_files
MaxEntries == 2      \* entries of an uploaded archive
MaxChars   == 4      \* characters of a delivery charge text

\* -------------------------------------------------------- program constants
MaxExtractAttempts == 5     \* for attempt in range(5)
max_attempts       == 5     \* append_to_file: max_attempts = 5

Procs == {1, 2}

None == "<None>"
NaN  == "<NaN>"

Keys == {"invoice_number", "sender_pincode", "receiver_pincode",
         "delivery_charge", "main_date"}

\* ------------------------------------------------------------ JSON objects
\* A parsed JSON object (a Python dict): the keys it has, and their values.
\* val is total so that dicts compare; get never reads val outside keys.
FullRecord(inv) ==
    [keys |-> Keys,
     val  |-> [k \in Keys |->
                 IF k = "invoice_number"        THEN inv
                 ELSE IF k = "sender_pincode"   THEN "PIN 110001"
                 ELSE IF k = "receiver_pincode" THEN "PIN 560001"
                 ELSE IF k = "delivery_charge"  THEN "Rs 123.45 incl. GST"
                 ELSE "05-11-2026"]]

\* An object that leaves three keys out and has null as its date.
PartialRecord ==
    [keys |-> {"invoice_number", "main_date"},
     val  |-> [k \in Keys |->
                 IF k = "invoice_number"  THEN "INV-1"
                 ELSE IF k = "main_date"  THEN None
                 ELSE "-"]]

\* dict.get(key, default)
get(d, k, default) == IF k \in d.keys THEN d.val[k] ELSE default

\* Invoice identifiers the external model puts in a complete answer.
InvoiceIds == {"inv-1", "", "nan"}

\* Objects the external model may answer with.
Payloads == {FullRecord(inv) : inv \in InvoiceIds} \cup {PartialRecord}

\* The record extract_field returns when every attempt failed.
NARecord ==
    [keys |-> Keys, val |-> [k \in Keys |-> "NA"]]

\* ------------------------------------------------------- model responses
\* response.text as a sequence of tokens: an opening brace, a closing
\* brace, a run of prose, the members of a well-formed object, or a run of
\* characters that is not well-formed JSON.
Open         == [kind |-> "{", obj |-> NARecord]
Close        == [kind |-> "}", obj |-> NARecord]
Prose        == [kind |-> "prose", obj |-> NARecord]
Garbage      == [kind |-> "garbage", obj |-> NARecord]
Members(d)   == [kind |-> "members", obj |-> d]

Responses ==
    {<<Prose>>,                                   \* no brace at all
     <<Prose, Open, Garbage>>,                    \* truncated: no '}'
     <<Close, Prose, Open>>,                      \* last '}' before first '{'
     <<Open, Garbage, Close>>,                    \* malformed inside braces
     <<Open, Members(NARecord), Close, Prose, Open, Members(NARecord), Close>>}
      \cup {<<Prose, Open, Members(d), Close, Prose>> : d \in Payloads}
      \cup {<<Open, Members(d), Close>> : d \in Payloads}

\* What one execution of line 78 can do: raise, or hand back a response.
ModelOutcomes ==
    {[raises |-> TRUE, text |-> <<>>]}
      \cup {[raises |-> FALSE, text |-> r] : r \in Responses}

\* st.secrets["GEMINI_API_KEY"]["API_KEY"] (line 20): a key the service
\* accepts, a key it rejects, or no such secret.
Credentials == {"valid", "invalid", "missing"}

\* What line 78 can do with the key the client was configured with: the
\* service rejects every call made with a key that is not valid, and the
\* client raises.
OutcomesWith(cred) ==
    IF cred = "valid" THEN ModelOutcomes
    ELSE {[raises |-> TRUE, text |-> <<>>]}

\* Line 78 has not run for the current document.
NoResponse == [raises |-> FALSE, text |-> <<>>]

\* str.find / str.rfind: 0-based index of the first / last token, or -1.
find(raw, ch) ==
    IF \E i \in 1..Len(raw) : raw[i].kind = ch
    THEN (CHOOSE i \in 1..Len(raw) :
             /\ raw[i].kind = ch
             /\ \A j \in 1..(i-1) : raw[j].kind # ch) - 1
    ELSE -1

\* str.find in the place of str.rfind.
rfind_first(raw, ch) == find(raw, ch)

rfind(raw, ch) ==
    IF \E i \in 1..Len(raw) : raw[i].kind = ch
    THEN (CHOOSE i \in 1..Len(raw) :
             /\ raw[i].kind = ch
             /\ \A j \in (i+1)..Len(raw) : raw[j].kind # ch) - 1
    ELSE -1

\* raw[start:stop] for 0 <= start, 0 <= stop (empty when stop <= start)
Slice(raw, start, stop) == SubSeq(raw, start + 1, stop)

\* json.loads succeeds exactly on one well-formed object
json_ok(s) ==
    /\ Len(s) = 3
    /\ s[1].kind = "{"
    /\ s[2].kind = "members"
    /\ s[3].kind = "}"

json_loads(s) == s[2].obj

\* The attempt number st.error shows at line 89: attempt + 1.
ReportedAttemptZeroBased(a) == a

ReportedAttempt(a) == a + 1

\* One pass through the body of the try block (lines 78-86): the value
\* returned, or the exception raised.
TryAttempt(o) ==
    IF o.raises THEN [ok |-> FALSE, value |-> NARecord]
    ELSE LET raw   == o.text
             start == find(raw, "{")
             end   == rfind(raw, "}")
         IN IF start = -1 \/ end = -1
            THEN [ok |-> FALSE, value |-> NARecord]
            ELSE LET raw_json == Slice(raw, start, end + 1)
                 IN IF json_ok(raw_json)
                    THEN [ok |-> TRUE, value |-> json_loads(raw_json)]
                    ELSE [ok |-> FALSE, value |-> NARecord]

\* ------------------------------------------------------------ the table
\* Names of the uploaded documents, in the order they are submitted.
DocNames == <<"d01.pdf", "d02.pdf", "d03.pdf", "d04.pdf", "d05.pdf",
              "d06.pdf", "d07.pdf", "d08.pdf", "d09.pdf", "d10.pdf",
              "d11.pdf", "d12.pdf">>

Columns == {"file_name", "invoice_number", "delivery_charge", "main_date",
            "sender_pincode", "receiver_pincode"}

\* The row the batch loop builds from the extracted fields (lines 508-520).
MakeRow(file_name, f) ==
    [file_name        |-> file_name,
     invoice_number   |-> get(f, "invoice_number", "NA"),
     delivery_charge  |-> get(f, "delivery_charge", "NA"),
     main_date        |-> get(f, "main_date", "NA"),
     sender_pincode   |-> get(f, "sender_pincode", "NA"),
     receiver_pincode |-> get(f, "receiver_pincode", "NA")]

\* Cell texts pd.read_excel turns into NaN when called with its defaults
\* (keep_default_na=True, na_values=None).  No text of the model is a
\* numeral, so the numeric dtype inference of read_excel plays no part.
DefaultNA == {"", "#N/A", "#N/A N/A", "#NA", "-1.#IND", "-1.#QNAN", "-NaN",
              "-nan", "1.#IND", "1.#QNAN", "<NA>", "N/A", "NA", "NULL",
              "NaN", "None", "n/a", "nan", "null"}

ReadCell(c)  == IF c \in DefaultNA THEN NaN ELSE c

\* DataFrame.to_excel writes a missing value (NaN, None) as an empty cell
\* (na_rep='').
WriteCell(v) == IF v \in {NaN, None} THEN "" ELSE v

ReadRow(r)  == [c \in Columns |-> ReadCell(r[c])]

WriteRow(r) == [c \in Columns |-> WriteCell(r[c])]

\* pd.read_excel(filename): the sheet's rows as a DataFrame
read_excel(rows) == [i \in 1..Len(rows) |-> ReadRow(rows[i])]

\* df.to_excel(filename, index=False): the DataFrame's rows as a sheet
to_excel(df) == [i \in 1..Len(df) |-> WriteRow(df[i])]

\* pd.concat with the two frames in the other order.
concat_new_first(existing_df, new_df) == new_df \o existing_df

\* pd.concat([existing_df, new_df], ignore_index=True)
concat(existing_df, new_df) == existing_df \o new_df

\* Series.astype(str) on one value
astype_str(v) == IF v = NaN THEN "nan" ELSE v

\* str.upper on the texts of the model
upper(s) ==
    CASE s = "inv-1" -> "INV-1"
      [] s = "nan"   -> "NAN"
      [] OTHER       -> s

NoFile == [exists |-> FALSE, rows |-> <<>>]
File(rows) == [exists |-> TRUE, rows |-> rows]

\* The check with line 148 returning True instead of False.
check_duplicate_invoice_default_true(f, invoice_number, ioerr) ==
    IF f.exists /\ invoice_number # "NA" /\ invoice_number # ""
    THEN IF ioerr \/ invoice_number = None
         THEN [dup |-> FALSE, raised |-> TRUE]
         ELSE [dup    |-> upper(invoice_number) \in
                            {upper(astype_str(read_excel(f.rows)[i].invoice_number)) :
                                i \in 1..Len(f.rows)},
               raised |-> FALSE]
    ELSE [dup |-> TRUE, raised |-> FALSE]

\* The check with line 151 returning True instead of False.
check_duplicate_invoice_fail_closed(f, invoice_number, ioerr) ==
    IF f.exists /\ invoice_number # "NA" /\ invoice_number # ""
    THEN IF ioerr \/ invoice_number = None
         THEN [dup |-> TRUE, raised |-> TRUE]
         ELSE [dup    |-> upper(invoice_number) \in
                            {upper(astype_str(read_excel(f.rows)[i].invoice_number)) :
                                i \in 1..Len(f.rows)},
               raised |-> FALSE]
    ELSE [dup |-> FALSE, raised |-> FALSE]

\* check_duplicate_invoice(filename, invoice_number) on the artifact f;
\* ioerr: pd.read_excel raises.  dup is the value returned, raised tells
\* whether the except branch (lines 149-151) ran.
check_duplicate_invoice(f, invoice_number, ioerr) ==
    IF f.exists /\ invoice_number # "NA" /\ invoice_number # ""
    THEN IF ioerr \/ invoice_number = None   \* None has no .upper()
         THEN [dup |-> FALSE, raised |-> TRUE]
         ELSE LET existing_df == read_excel(f.rows)
                  existing_invoices ==
                      {upper(astype_str(existing_df[i].invoice_number)) :
                          i \in 1..Len(existing_df)}
              IN [dup    |-> upper(invoice_number) \in existing_invoices,
                  raised |-> FALSE]
    ELSE [dup |-> FALSE, raised |-> FALSE]

\* What a to_excel that raises can leave at its path: the old artifact (the
\* open failed) or a truncated one holding only the first k rows.
FailedWrite(old, df) ==
    {old} \cup {File(SubSeq(to_excel(df), 1, k)) : k \in 0..(Len(df) - 1)}

\* ------------------------------------------------------------------ state
VARIABLES
    primary,     \* the artifact invoice.xlsx: [exists, rows]
    backups,     \* the artifacts invoice_backup_<t>.xlsx, by timestamp t
    now,         \* wall clock, in whole seconds (datetime.now(), %Y%m%d_%H%M%S)
    pc,          \* position of each process instance
    submitted,   \* documents handed over so far, the running batch included
    ndocs,       \* len(all_pdf_files) of the running batch
    idx,         \* i + 1 of the batch loop: the document being processed
    attempt,     \* extract_field: the loop variable attempt
    calls,       \* extract_field: executions of line 78 for this document
    reports,     \* extract_field: attempt numbers shown by st.error (line 89)
    fields,      \* the record extract_field returned
    raw,         \* extract_field: what the last execution of line 78 did
    gate,        \* what check_duplicate_invoice answered for this document
    data,        \* rows admitted by the running batch
    skipped,     \* skipped_files of the running batch
    mattempt,    \* append_to_file: the loop variable attempt
    T0,          \* the primary artifact when append_to_file was entered
    df,          \* append_to_file: the combined frame built at lines 159-163
    final_df,    \* the frame append_to_file returned
    ret,         \* the return statement append_to_file left through
    ui,          \* messages append_to_file and the status block have shown
    credential,  \* the API key the process configured the client with
    uploaded_files,  \* process_uploaded_files: the uploads looped over so far
    all_pdf_files,   \* process_uploaded_files: the list it builds
    notes,           \* process_uploaded_files: the messages it has shown
    upc,             \* process_uploaded_files: in its loop, or returned
    delivery_charge, \* extract_numeric_value: the cell it is applied to
    numeric          \* what each copy of extract_numeric_value returned

vars == <<primary, backups, now, pc, submitted, ndocs, idx, attempt, calls,
          reports, fields, raw, gate, data, skipped, mattempt, T0, df, final_df,
          ret, ui, credential, uploaded_files, all_pdf_files, notes, upc,
          delivery_charge, numeric>>

unpackVars  == <<uploaded_files, all_pdf_files, notes, upc>>
numVars     == <<delivery_charge, numeric>>
pureVars    == <<unpackVars, numVars>>
extractVars == <<attempt, calls, reports, fields, raw>>
mergeVars   == <<mattempt, T0, df, final_df, ret, ui>>
batchVars   == <<submitted, ndocs, idx, data, skipped, gate>>
storeVars   == <<primary, backups>>

Clock == 0..MaxClock

NoGate == [dup |-> FALSE, raised |-> FALSE]

InitLocals ==
    /\ submitted = [p \in Procs |-> 0]
    /\ ndocs    = [p \in Procs |-> 0]
    /\ idx      = [p \in Procs |-> 0]
    /\ attempt  = [p \in Procs |-> 0]
    /\ calls    = [p \in Procs |-> 0]
    /\ reports  = [p \in Procs |-> <<>>]
    /\ fields   = [p \in Procs |-> NARecord]
    /\ raw      = [p \in Procs |-> NoResponse]
    /\ gate     = [p \in Procs |-> NoGate]
    /\ skipped  = [p \in Procs |-> <<>>]
    /\ mattempt = [p \in Procs |-> 0]
    /\ df       = [p \in Procs |-> <<>>]
    /\ final_df = [p \in Procs |-> <<>>]
    /\ ret      = [p \in Procs |-> "none"]
    /\ ui       = [p \in Procs |-> <<>>]

Copies == {"main", "report"}

\* A cell handed to extract_numeric_value: a missing value (NaN, None) or
\* a text, the sequence of its characters.
Missing    == [isna |-> TRUE, text |-> <<>>]
Text(t)    == [isna |-> FALSE, text |-> t]

\* No value returned yet.
Unset == [num |-> -1, scale |-> 0]

\* extract_numeric_value is not running.
NumUnused ==
    /\ delivery_charge = Missing
    /\ numeric = [c \in Copies |-> Unset]

\* process_uploaded_files is not running.
UnpackUnused ==
    /\ uploaded_files = <<>>
    /\ all_pdf_files  = <<>>
    /\ notes          = <<>>
    /\ upc            = "unused"

\* One process instance, a store that does not exist yet.  Without the
\* secret the script ends at line 20 and serves nothing.
Init ==
    /\ primary = NoFile
    /\ backups = [t \in Clock |-> NoFile]
    /\ now     = 0
    /\ \E cred \in Credentials :
          /\ credential = [p \in Procs |-> cred]
          /\ pc = [p \in Procs |->
                     IF p = 1 /\ cred # "missing" THEN "idle" ELSE "off"]
    /\ data    = [p \in Procs |-> <<>>]
    /\ T0      = [p \in Procs |-> NoFile]
    /\ InitLocals
    /\ UnpackUnused
    /\ NumUnused

\* ---------------------------------------------------------- the batch loop
\* The uploader hands over n documents (lines 484-496).
StartBatch(p) ==
    /\ pc[p] = "idle"
    /\ \E n \in 1..(MaxUploads - submitted[p]) :
         /\ ndocs' = [ndocs EXCEPT ![p] = n]
         /\ submitted' = [submitted EXCEPT ![p] = @ + n]
    /\ idx'     = [idx EXCEPT ![p] = 1]
    /\ data'    = [data EXCEPT ![p] = <<>>]
    /\ skipped' = [skipped EXCEPT ![p] = <<>>]
    /\ gate'    = [gate EXCEPT ![p] = NoGate]
    /\ attempt' = [attempt EXCEPT ![p] = 0]
    /\ calls'   = [calls EXCEPT ![p] = 0]
    /\ reports' = [reports EXCEPT ![p] = <<>>]
    /\ fields'  = [fields EXCEPT ![p] = NARecord]
    /\ raw'     = [raw EXCEPT ![p] = NoResponse]
    /\ mattempt' = [mattempt EXCEPT ![p] = 0]
    /\ df'       = [df EXCEPT ![p] = <<>>]
    /\ final_df' = [final_df EXCEPT ![p] = <<>>]
    /\ ret'      = [ret EXCEPT ![p] = "none"]
    /\ ui'       = [ui EXCEPT ![p] = <<>>]
    /\ T0'       = [T0 EXCEPT ![p] = NoFile]
    /\ pc'      = [pc EXCEPT ![p] = "extract"]
    /\ UNCHANGED <<pureVars, credential, storeVars, now>>

\* extract_field, one pass of the loop at lines 76-90; after the last
\* failed pass the loop ends and line 92 returns the all-"NA" record.
ExtractAttempt(p) ==
    /\ pc[p] = "extract"
    /\ attempt[p] < MaxExtractAttempts
    /\ \E o \in OutcomesWith(credential[p]) :
         LET r == TryAttempt(o) IN
         /\ calls' = [calls EXCEPT ![p] = @ + 1]
         /\ raw' = [raw EXCEPT ![p] = o]
         /\ IF r.ok
            THEN /\ fields' = [fields EXCEPT ![p] = r.value]
                 /\ pc' = [pc EXCEPT ![p] = "gate"]
                 /\ UNCHANGED <<attempt, reports>>
            ELSE /\ reports' = [reports EXCEPT ![p] = Append(@, ReportedAttempt(attempt[p]))]
                 /\ attempt' = [attempt EXCEPT ![p] = @ + 1]
                 /\ IF attempt[p] + 1 < MaxExtractAttempts
                    THEN UNCHANGED <<fields, pc>>
                    ELSE /\ fields' = [fields EXCEPT ![p] = NARecord]
                         /\ pc' = [pc EXCEPT ![p] = "gate"]
    /\ UNCHANGED <<pureVars, credential, storeVars, now, batchVars, mergeVars>>

\* Lines 508-516: the duplicate check of the current document.
CheckDuplicate(p) ==
    /\ pc[p] = "gate"
    /\ \E ioerr \in BOOLEAN :
         gate' = [gate EXCEPT ![p] =
                    check_duplicate_invoice(primary,
                        get(fields[p], "invoice_number", "NA"), ioerr)]
    /\ pc' = [pc EXCEPT ![p] = "admit"]
    /\ UNCHANGED <<pureVars, credential, storeVars, now, submitted, ndocs, idx, data, skipped,
                   extractVars, mergeVars>>

DocName(p) == DocNames[submitted[p] - ndocs[p] + idx[p]]

\* The loop of line 498 leaving out the last document.
MoreDocuments_one_short(p) == idx[p] + 1 < ndocs[p]

\* for i, pdf_file in enumerate(all_pdf_files): another document follows
\* the current one.
MoreDocuments(p) == idx[p] < ndocs[p]

\* The entry of skipped_files (line 517): the file and its invoice number.
SkippedFile(file_name, f) ==
    [file_name |-> file_name, invoice_number |-> get(f, "invoice_number", "NA")]

\* Lines 516-522 and, after the last document, lines 524-541 up to the
\* call of append_to_file.
Admit(p) ==
    /\ pc[p] = "admit"
    /\ IF gate[p].dup
       THEN /\ skipped' = [skipped EXCEPT ![p] =
                              Append(@, SkippedFile(DocName(p), fields[p]))]
            /\ data' = data
       ELSE /\ data' = [data EXCEPT ![p] =
                          Append(@, MakeRow(DocName(p), fields[p]))]
            /\ skipped' = skipped
    /\ IF MoreDocuments(p)
       THEN /\ idx' = [idx EXCEPT ![p] = @ + 1]
            /\ pc' = [pc EXCEPT ![p] = "extract"]
            /\ UNCHANGED T0
       ELSE /\ pc' = [pc EXCEPT ![p] = IF data'[p] # <<>> THEN "merge" ELSE "idle"]
            /\ T0' = [T0 EXCEPT ![p] = primary]
            /\ UNCHANGED idx
    \* the locals of extract_field and of the check end with the iteration
    /\ attempt' = [attempt EXCEPT ![p] = 0]
    /\ calls'   = [calls EXCEPT ![p] = 0]
    /\ reports' = [reports EXCEPT ![p] = <<>>]
    /\ fields'  = [fields EXCEPT ![p] = NARecord]
    /\ raw'     = [raw EXCEPT ![p] = NoResponse]
    /\ gate'    = [gate EXCEPT ![p] = NoGate]
    /\ UNCHANGED <<pureVars, credential, storeVars, now, submitted, ndocs,
                   mattempt, df, final_df, ret, ui>>

\* ----------------------------------------------------------- append_to_file
Msg(kind, n) == [kind |-> kind, n |-> n]

\* Lines 159-163 of one pass of the retry loop: read the artifact, if there
\* is one, and put the new rows behind its rows.
MergeRead(p) ==
    /\ pc[p] = "merge"
    /\ \E ioerr \in BOOLEAN :
         IF primary.exists /\ ioerr
         THEN \* pd.read_excel raised: lines 194-196
              /\ ui' = [ui EXCEPT ![p] = Append(@, Msg("unexpected_error", mattempt[p] + 1))]
              /\ final_df' = [final_df EXCEPT ![p] = data[p]]
              /\ ret' = [ret EXCEPT ![p] = "line196"]
              /\ pc' = [pc EXCEPT ![p] = "status"]
              /\ UNCHANGED df
         ELSE /\ df' = [df EXCEPT ![p] =
                          IF primary.exists
                          THEN concat(read_excel(primary.rows), data[p])
                          ELSE data[p]]
              /\ pc' = [pc EXCEPT ![p] = "write"]
              /\ UNCHANGED <<ui, final_df, ret>>
    /\ UNCHANGED <<pureVars, credential, storeVars, now, batchVars, extractVars, mattempt, T0>>

\* Lines 166-196 of one pass of the retry loop: the write of the primary
\* artifact succeeds, is refused because the file is held open elsewhere
\* (PermissionError), or fails in some other way.
MergeWrite(p) ==
    /\ pc[p] = "write"
    /\ \E outcome \in {"ok", "PermissionError", "Exception"} :
         CASE outcome = "ok" ->
                /\ primary' = File(to_excel(df[p]))
                /\ final_df' = [final_df EXCEPT ![p] = df[p]]
                /\ ret' = [ret EXCEPT ![p] = "line167"]
                /\ pc' = [pc EXCEPT ![p] = "status"]
                /\ UNCHANGED <<ui, mattempt>>
           [] outcome = "PermissionError" ->
                /\ primary' = primary
                /\ IF mattempt[p] < max_attempts - 1
                   THEN /\ ui' = [ui EXCEPT ![p] = Append(@, Msg("retry_warning", mattempt[p] + 1))]
                        /\ mattempt' = [mattempt EXCEPT ![p] = @ + 1]
                        /\ pc' = [pc EXCEPT ![p] = "merge"]
                   ELSE /\ ui' = [ui EXCEPT ![p] = Append(@, Msg("could_not_save", mattempt[p] + 1))]
                        /\ pc' = [pc EXCEPT ![p] = "fallback"]
                        /\ UNCHANGED mattempt
                /\ UNCHANGED <<final_df, ret>>
           [] outcome = "Exception" ->
                /\ primary' \in FailedWrite(primary, df[p])
                /\ ui' = [ui EXCEPT ![p] = Append(@, Msg("unexpected_error", mattempt[p] + 1))]
                /\ final_df' = [final_df EXCEPT ![p] = data[p]]
                /\ ret' = [ret EXCEPT ![p] = "line196"]
                /\ pc' = [pc EXCEPT ![p] = "status"]
                /\ UNCHANGED mattempt
    /\ UNCHANGED <<pureVars, credential, backups, now, batchVars, extractVars, T0, df>>

\* Lines 175-192: after the last refused write, read the primary artifact
\* again and write the combined rows to invoice_backup_<timestamp>.xlsx.
Fallback(p) ==
    /\ pc[p] = "fallback"
    /\ LET combined == IF primary.exists
                       THEN concat(read_excel(primary.rows), data[p])
                       ELSE data[p]
       IN \E outcome \in {"ok", "Exception"} :
            IF outcome = "ok"
            THEN /\ backups' = [backups EXCEPT ![now] = File(to_excel(combined))]
                 /\ ui' = [ui EXCEPT ![p] = Append(@, Msg("saved_as_backup", now))]
                 /\ final_df' = [final_df EXCEPT ![p] = combined]
                 /\ ret' = [ret EXCEPT ![p] = "line188"]
            ELSE /\ \E f \in FailedWrite(backups[now], combined) :
                      backups' = [backups EXCEPT ![now] = f]
                 /\ ui' = [ui EXCEPT ![p] = Append(@, Msg("failed_to_save", now))]
                 /\ final_df' = [final_df EXCEPT ![p] = data[p]]
                 /\ ret' = [ret EXCEPT ![p] = "line192"]
    /\ pc' = [pc EXCEPT ![p] = "status"]
    /\ UNCHANGED <<pureVars, credential, primary, now, batchVars, extractVars, mattempt, T0, df>>

\* Lines 543-565: the download and the file status shown after
\* append_to_file returned.
ShowStatus(p) ==
    /\ pc[p] = "status"
    /\ ui' = [ui EXCEPT ![p] =
                Append(@, IF primary.exists THEN Msg("saved_to_primary", now)
                          ELSE IF backups[now].exists
                               THEN Msg("saved_to_backup", now)
                               ELSE Msg("no_status", now))]
    /\ pc' = [pc EXCEPT ![p] = "idle"]
    /\ UNCHANGED <<pureVars, credential, storeVars, now, batchVars, extractVars,
                   mattempt, T0, df, final_df, ret>>

\* A second of wall-clock time passes.  The clock is read at lines 175 and
\* 544 only, so it is enough to let it advance right before those reads.
Tick ==
    /\ now < MaxClock
    /\ \E p \in Procs : pc[p] \in {"fallback", "status"}
    /\ now' = now + 1
    /\ UNCHANGED <<pureVars, credential, storeVars, pc, batchVars, extractVars, mergeVars>>

\* ------------------------------------------------------- specifications
Next ==
    \/ StartBatch(1)
    \/ ExtractAttempt(1)
    \/ CheckDuplicate(1)
    \/ Admit(1)
    \/ MergeRead(1)
    \/ MergeWrite(1)
    \/ Fallback(1)
    \/ ShowStatus(1)
    \/ Tick

Spec == Init /\ [][Next]_vars

\* Two process instances, each inside append_to_file with a batch of its
\* own, against one primary artifact.
ConcRecords == {NARecord}

Tables(off) ==
    UNION {{[i \in 1..n |-> MakeRow(DocNames[off + i], f[i])] :
               f \in [1..n -> ConcRecords]} : n \in 1..MaxRows}

InitConc ==
    /\ primary \in {NoFile} \cup {File(to_excel(t)) : t \in Tables(0)}
    /\ backups = [t \in Clock |-> NoFile]
    /\ now     = 0
    /\ pc      = [p \in Procs |-> "merge"]
    /\ credential = [p \in Procs |-> "valid"]
    /\ \E B1 \in Tables(4), B2 \in Tables(8) :
          data = [p \in Procs |-> IF p = 1 THEN B1 ELSE B2]
    /\ T0      = [p \in Procs |-> primary]
    /\ InitLocals
    /\ UnpackUnused
    /\ NumUnused

NextConc ==
    \/ \E p \in Procs : MergeRead(p)
    \/ \E p \in Procs : MergeWrite(p)
    \/ \E p \in Procs : Fallback(p)
    \/ \E p \in Procs : ShowStatus(p)
    \/ Tick

SpecConc == InitConc /\ [][NextConc]_vars

\* One process instance that starts on the store an earlier session left:
\* no artifact, or a primary artifact with rows of documents handed over
\* then.
InitStored ==
    /\ primary \in {NoFile} \cup {File(to_excel(t)) : t \in Tables(4)}
    /\ backups = [t \in Clock |-> NoFile]
    /\ now     = 0
    /\ pc      = [p \in Procs |-> IF p = 1 THEN "idle" ELSE "off"]
    /\ credential = [p \in Procs |-> "valid"]
    /\ data    = [p \in Procs |-> <<>>]
    /\ T0      = [p \in Procs |-> NoFile]
    /\ InitLocals
    /\ UnpackUnused
    /\ NumUnused

SpecStored == InitStored /\ [][Next]_vars

\* ------------------------------------------------- process_uploaded_files
\* A file name: a stem without dots, an extension, and whether a slash
\* follows (the name of a directory entry of an archive).
Name(stem, ext, slash) == [stem |-> stem, ext |-> ext, slash |-> slash]

Stems == <<"f1", "f2", "f3", "f4">>

\* str.lower on a name: the stems of the model are lower case already.
lower(n) ==
    [n EXCEPT !.ext = CASE @ = ".PDF" -> ".pdf"
                        [] @ = ".ZIP" -> ".zip"
                        [] OTHER      -> @]

\* endswith with the file name as it stands, without lower().
endswith_cased(n, suffix) == ~n.slash /\ n.ext = suffix

\* str.lower().endswith(suffix) for a suffix that is an extension
endswith(n, suffix) == ~lower(n).slash /\ lower(n).ext = suffix

\* ZipInfo.is_dir(): the entry's name ends with a slash
is_dir(file_info) == file_info.filename.slash

\* The entries an archive may hold at place i of its directory: a PDF
\* (lower-case extension at the odd places, upper-case at the even ones),
\* another file, or a directory whose name ends in .pdf before the slash.
EntriesAt(i) ==
    {[filename |-> Name(Stems[i], ext, FALSE)] :
        ext \in {IF i % 2 = 1 THEN ".pdf" ELSE ".PDF", ".txt"}}
      \cup {[filename |-> Name(Stems[i], ".pdf", TRUE)]}

Archives ==
    UNION {{e \in [1..n -> UNION {EntriesAt(i) : i \in 1..n}] :
               \A i \in 1..n : e[i] \in EntriesAt(i)} : n \in 0..MaxEntries}

\* The uploads the uploader may hand over at place k: a PDF, a file of
\* another type, or an archive.
UploadsAt(k) ==
    {[name |-> Name(Stems[k], ext, FALSE), infolist |-> <<>>] :
        ext \in {".pdf", ".PDF", ".txt"}}
      \cup {[name |-> Name(Stems[k], ".zip", FALSE), infolist |-> a] :
               a \in Archives}

\* io.BytesIO(pdf_content) with .name = file_info.filename (lines 106-107)
BytesIO(filename) == [name |-> filename, infolist |-> <<>>]

\* The loop of lines 100-108 from entry i on.  failAt is the entry whose
\* zip_ref.read raises, if that entry is read at all.
RECURSIVE zip_loop(_, _, _, _)
zip_loop(infolist, i, pdf_files, failAt) ==
    IF i > Len(infolist) THEN [raised |-> FALSE, pdf_files |-> pdf_files]
    ELSE IF endswith(infolist[i].filename, ".pdf") /\ ~is_dir(infolist[i])
         THEN IF failAt = i
              THEN [raised |-> TRUE, pdf_files |-> <<>>]      \* lines 113-115
              ELSE zip_loop(infolist, i + 1,
                            Append(pdf_files, BytesIO(infolist[i].filename)),
                            failAt)
         ELSE zip_loop(infolist, i + 1, pdf_files, failAt)

\* extract_pdfs_from_zip(zip_file); failAt = 0: zipfile.ZipFile raises.
extract_pdfs_from_zip(zip_file, failAt) ==
    IF failAt = 0 THEN [raised |-> TRUE, pdf_files |-> <<>>]
    ELSE zip_loop(zip_file.infolist, 1, <<>>, failAt)

Note(kind, name) == [kind |-> kind, name |-> name]

pipelineVars == <<primary, backups, now, pc, submitted, ndocs, idx, attempt,
                  calls, reports, fields, raw, gate, data, skipped, mattempt, T0,
                  df, final_df, ret, ui, credential>>

\* The script is not serving a batch.
PipelineOff ==
    /\ primary = NoFile
    /\ backups = [t \in Clock |-> NoFile]
    /\ now     = 0
    /\ pc      = [p \in Procs |-> "off"]
    /\ credential = [p \in Procs |-> "valid"]
    /\ data    = [p \in Procs |-> <<>>]
    /\ T0      = [p \in Procs |-> NoFile]
    /\ InitLocals

InitUnpack ==
    /\ PipelineOff
    /\ uploaded_files = <<>>
    /\ all_pdf_files  = <<>>
    /\ notes          = <<>>
    /\ upc            = "loop"
    /\ NumUnused

\* One pass of the loop of lines 121-135 over the next upload.
ProcessUpload ==
    /\ upc = "loop"
    /\ Len(uploaded_files) < MaxFiles
    /\ \E uploaded_file \in UploadsAt(Len(uploaded_files) + 1) :
         /\ uploaded_files' = Append(uploaded_files, uploaded_file)
         /\ IF endswith(uploaded_file.name, ".pdf")
            THEN /\ all_pdf_files' = Append(all_pdf_files, uploaded_file)
                 /\ notes' = notes
            ELSE IF endswith(uploaded_file.name, ".zip")
            THEN \E failAt \in (0..Len(uploaded_file.infolist)) \cup {-1} :
                   LET r == extract_pdfs_from_zip(uploaded_file, failAt)
                       pdf_files_from_zip == r.pdf_files
                   IN /\ all_pdf_files' = all_pdf_files \o pdf_files_from_zip
                      /\ notes' = notes
                           \o <<Note("info_extracting", uploaded_file.name)>>
                           \o (IF r.raised
                               THEN <<Note("error_extracting", uploaded_file.name)>>
                               ELSE <<>>)
                           \o <<Note(IF pdf_files_from_zip # <<>>
                                     THEN "success_extracted"
                                     ELSE "warning_no_pdf",
                                     uploaded_file.name)>>
            ELSE /\ all_pdf_files' = all_pdf_files
                 /\ notes' = Append(notes, Note("warning_unsupported",
                                                uploaded_file.name))
    /\ UNCHANGED <<upc, pipelineVars, numVars>>

\* Line 137: return all_pdf_files
ReturnFiles ==
    /\ upc = "loop"
    /\ upc' = "returned"
    /\ UNCHANGED <<uploaded_files, all_pdf_files, notes, pipelineVars, numVars>>

NextUnpack ==
    \/ ProcessUpload
    \/ ReturnFiles

SpecUnpack == InitUnpack /\ [][NextUnpack]_vars

\* -------------------------------------------------- extract_numeric_value
\* A text is a sequence of characters.  Digits carry their value; every
\* other character matters only in being no digit, the full stop apart.
Digits == {"0", "1", "2", "3", "4", "5", "6", "7", "8", "9"}

DigitValue(ch) ==
    CASE ch = "0" -> 0 [] ch = "1" -> 1 [] ch = "2" -> 2 [] ch = "3" -> 3
      [] ch = "4" -> 4 [] ch = "5" -> 5 [] ch = "6" -> 6 [] ch = "7" -> 7
      [] ch = "8" -> 8 [] ch = "9" -> 9

\* The characters the texts of the model are drawn from.
Alphabet == {"N", "A", "0", "1", "5", ".", ",", " "}

Texts == UNION {[1..n -> Alphabet] : n \in 0..MaxChars}

\* The delivery charge of the interface description: a rupee sign, an
\* amount and words behind it.
ExampleCharge ==
    <<"<rupee>", "1", "2", "3", ".", "4", "5", " ",
      "i", "n", "c", "l", ".", " ", "G", "S", "T">>

\* What a cell of the column may hold: a missing value, or a text.
Charges == {Missing} \cup {Text(t) : t \in Texts \cup {ExampleCharge}}

\* pd.isna(x)
isna(x) == x.isna

\* A number as float() reads it from a decimal numeral: num / 10^scale,
\* with no trailing zero behind the point, so that equal numbers are
\* equal values (5, 5. and 5.0 are one number, and 0 == 0.0).
RECURSIVE Normal(_, _)
Normal(num, scale) ==
    IF scale > 0 /\ num % 10 = 0 THEN Normal(num \div 10, scale - 1)
    ELSE [num |-> num, scale |-> scale]

\* int(digits)
RECURSIVE DigitsValue(_)
DigitsValue(ds) ==
    IF ds = <<>> THEN 0
    ELSE 10 * DigitsValue(SubSeq(ds, 1, Len(ds) - 1)) + DigitValue(ds[Len(ds)])

\* float(text) for a text of the form digits, digits. or digits.digits
float(t) ==
    LET dot == IF \E i \in 1..Len(t) : t[i] = "."
               THEN CHOOSE i \in 1..Len(t) : t[i] = "." ELSE Len(t) + 1
        whole == SubSeq(t, 1, dot - 1)
        frac  == SubSeq(t, dot + 1, Len(t))
    IN Normal(DigitsValue(whole \o frac), Len(frac))

\* The place behind the longest run of digits of s that starts at place i.
RECURSIVE RunEnd(_, _)
RunEnd(s, i) ==
    IF i <= Len(s) /\ s[i] \in Digits THEN RunEnd(s, i + 1) ELSE i

\* re.findall with the pattern \d+ in place of \d+\.?\d*
findall_integer(s) ==
    IF \E i \in 1..Len(s) : s[i] \in Digits
    THEN LET a == CHOOSE i \in 1..Len(s) :
                     /\ s[i] \in Digits
                     /\ \A j \in 1..(i - 1) : s[j] \notin Digits
         IN <<SubSeq(s, a, RunEnd(s, a) - 1)>>
    ELSE <<>>

\* re.findall(r'\d+\.?\d*', s), cut down to its first match: the leftmost
\* digit starts the match, \d+ takes the whole run of digits, \.? takes a
\* full stop if one follows, \d* takes the digits behind it.
findall(s) ==
    IF \E i \in 1..Len(s) : s[i] \in Digits
    THEN LET a == CHOOSE i \in 1..Len(s) :
                     /\ s[i] \in Digits
                     /\ \A j \in 1..(i - 1) : s[j] \notin Digits
             b == RunEnd(s, a)
             c == IF b <= Len(s) /\ s[b] = "." THEN RunEnd(s, b + 1) ELSE b
         IN <<SubSeq(s, a, c - 1)>>
    ELSE <<>>

Zero == [num |-> 0, scale |-> 0]

\* extract_numeric_value of main.py (lines 200-212)
extract_numeric_value(x) ==
    IF isna(x) \/ x = Text(<<"N", "A">>) THEN Zero
    ELSE LET delivery_str == x.text     \* str() of a text is the text
             numbers == findall(delivery_str)
         IN IF numbers # <<>> THEN float(numbers[1]) ELSE Zero

\* extract_numeric_value of pdf_report_generator.py (lines 74-84)
report_extract_numeric_value(x) ==
    IF isna(x) \/ x = Text(<<"N", "A">>) THEN Zero
    ELSE LET delivery_str == x.text
             numbers == findall(delivery_str)
         IN IF numbers # <<>> THEN float(numbers[1]) ELSE Zero

InitNum ==
    /\ PipelineOff
    /\ UnpackUnused
    /\ delivery_charge \in Charges
    /\ numeric = [c \in Copies |-> Unset]

\* main.py line 333: the dashboard applies its copy to the cell.
ApplyMain ==
    /\ numeric["main"] = Unset
    /\ numeric' = [numeric EXCEPT !["main"] = extract_numeric_value(delivery_charge)]
    /\ UNCHANGED <<delivery_charge, pipelineVars, unpackVars>>

\* pdf_report_generator.py line 88: the report applies its copy to the cell.
ApplyReport ==
    /\ numeric["report"] = Unset
    /\ numeric' = [numeric EXCEPT !["report"] =
                      report_extract_numeric_value(delivery_charge)]
    /\ UNCHANGED <<delivery_charge, pipelineVars, unpackVars>>

NextNum ==
    \/ ApplyMain
    \/ ApplyReport

SpecNum == InitNum /\ [][NextNum]_vars

\* --------------------------------------------------------------- claims
Sentinels == {"NA", ""}

Range(seq) == {seq[i] : i \in 1..Len(seq)}

\* The candidate identifier of the document at the duplicate gate.
Candidate(p) == get(fields[p], "invoice_number", "NA")

\* Some row of the sheet rows holds a non-sentinel invoice number that
\* equals inv when both are uppercased.
MatchesNonSentinel(rows, inv) ==
    \E i \in 1..Len(rows) :
        /\ rows[i].invoice_number \notin Sentinels
        /\ upper(rows[i].invoice_number) = upper(inv)

\* C1: the record extract_field returns has all five keys, whatever the
\* external model did on each attempt.
C1_AllFiveKeysReturned ==
    pc[1] \in {"gate", "admit"} => fields[1].keys = Keys

\* C2: when every attempt of extract_field failed, line 78 ran exactly 5
\* times, the failures were reported with the attempt numbers 1..5 in that
\* order, and the record returned is the all-"NA" record; extract_field
\* never makes a sixth call.
C2_AllAttemptsFail ==
    /\ calls[1] <= 5
    /\ attempt[1] >= 5 =>
         /\ pc[1] \in {"gate", "admit"}
         /\ calls[1] = 5
         /\ reports[1] = <<1, 2, 3, 4, 5>>
         /\ fields[1] = [keys |-> Keys, val |-> [k \in Keys |-> "NA"]]

C2_Witness ==
    /\ pc[1] = "gate"
    /\ attempt[1] = 5
    /\ calls[1] = 5

\* C3: when the table was read without error, the check reports a
\* duplicate exactly when the uppercased candidate equals the uppercased
\* form of a non-sentinel invoice number of the table.
C3_DuplicateIffNonSentinelMatch ==
    (pc[1] = "admit" /\ ~gate[1].raised) =>
        (gate[1].dup <=> MatchesNonSentinel(primary.rows, Candidate(1)))

\* C4: a document whose invoice identifier is "NA" or empty is not reported
\* as a duplicate and the batch loop appends its row to the batch.
C4_SentinelAlwaysAdmitted ==
    [][(pc[1] = "admit" /\ pc'[1] # "admit" /\ Candidate(1) \in Sentinels) =>
          /\ ~gate[1].dup
          /\ data'[1] = Append(data[1], MakeRow(DocName(1), fields[1]))
          /\ skipped'[1] = skipped[1]]_vars

C4_Witness ==
    /\ pc[1] = "admit"
    /\ Candidate(1) \in Sentinels
    /\ primary.exists
    /\ \E i \in 1..Len(primary.rows) :
          primary.rows[i].invoice_number \in Sentinels

\* C5: after a merge whose write of the primary artifact succeeded, the
\* artifact holds the rows it held before, followed by the rows of the
\* batch, and append_to_file returned that table.
C5_MergeIsConcatenation ==
    (pc[1] = "status" /\ ret[1] = "line167") =>
        /\ primary = File(T0[1].rows \o to_excel(data[1]))
        /\ to_excel(final_df[1]) = primary.rows

\* C6: after five refused writes and a fallback that was written, the
\* backup artifact holds the primary's rows followed by the batch, and the
\* primary artifact is as it was.
C6_FallbackHoldsConcatenation ==
    (pc[1] = "status" /\ ret[1] = "line188") =>
        /\ \E t \in Clock :
              backups[t] = File(T0[1].rows \o to_excel(data[1]))
        /\ primary = T0[1]

\* C7: the primary table never holds two rows whose invoice numbers are
\* non-sentinel and equal when uppercased.
C7_PrimaryDeduplicated ==
    \A i, j \in 1..Len(primary.rows) :
        (/\ i < j
         /\ primary.rows[i].invoice_number \notin Sentinels
         /\ primary.rows[j].invoice_number \notin Sentinels)
        => upper(primary.rows[i].invoice_number)
             # upper(primary.rows[j].invoice_number)

\* The file names of the rows of a table.
NamesOf(rows) == {rows[i].file_name : i \in 1..Len(rows)}

\* C8: when both process instances left append_to_file through line 167 on
\* their first attempt, with no PermissionError, the primary artifact holds
\* every row it held before and every row of both batches.
C8_ConcurrentMergesLoseNoRow ==
    (\A p \in Procs : /\ pc[p] \in {"status", "idle"}
                      /\ ret[p] = "line167"
                      /\ mattempt[p] = 0)
    => (NamesOf(T0[1].rows) \cup NamesOf(data[1]) \cup NamesOf(data[2]))
          \subseteq NamesOf(primary.rows)

\* C9: after a merge attempt that failed with an error other than
\* PermissionError, the error was reported, no further attempt was made,
\* append_to_file returned the batch alone, and the primary artifact is as
\* it was when append_to_file was entered.
C9_UnexpectedErrorLeavesPrimary ==
    (pc[1] = "status" /\ ret[1] = "line196") =>
        /\ ui[1][Len(ui[1])].kind = "unexpected_error"
        /\ final_df[1] = data[1]
        /\ primary = T0[1]

\* C10: when the duplicate check raised, it answers "no duplicate", the
\* document's row is appended to the batch and the loop goes on to the
\* next document or, after the last one, to the merge.
C10_CheckFailsOpen ==
    [][(pc[1] = "admit" /\ pc'[1] # "admit" /\ gate[1].raised) =>
          /\ ~gate[1].dup
          /\ data'[1] = Append(data[1], MakeRow(DocName(1), fields[1]))
          /\ pc'[1] = IF idx[1] < ndocs[1] THEN "extract" ELSE "merge"]_vars

C10_Witness ==
    /\ pc[1] = "admit"
    /\ gate[1].raised
    /\ MatchesNonSentinel(primary.rows, Candidate(1))

\* The place of a document in the order of submission.
SubmissionIndex(name) ==
    CHOOSE k \in 1..Len(DocNames) : DocNames[k] = name

\* The rows of a table stand in the order their documents were submitted.
InSubmissionOrder(rows) ==
    \A i, j \in 1..Len(rows) :
        i < j => SubmissionIndex(rows[i].file_name)
                   < SubmissionIndex(rows[j].file_name)

\* C11: the rows of the primary artifact, of every backup artifact and of
\* the running batch stand in the order their documents were submitted:
\* the rows of one batch in the order of the batch, and the rows of a later
\* batch behind the rows of every earlier batch.
C11_RowsInSubmissionOrder ==
    /\ InSubmissionOrder(primary.rows)
    /\ \A t \in Clock : InSubmissionOrder(backups[t].rows)
    /\ InSubmissionOrder(data[1])

\* A second batch has been merged behind the rows of a first one.
C11_Witness ==
    /\ pc[1] = "status"
    /\ ret[1] = "line167"
    /\ Len(T0[1].rows) >= 1
    /\ Len(data[1]) >= 1
    /\ Len(primary.rows) = Len(T0[1].rows) + Len(data[1])

\* Documents of the running batch that have reached their outcome.
Outcomes(p) == Len(data[p]) + Len(skipped[p])

InBatchLoop(p) == pc[p] \in {"extract", "gate", "admit"}
InMerge(p)     == pc[p] \in {"merge", "write", "fallback"}

\* C12: the documents of a batch are processed one after another; while
\* document idx is processed the idx - 1 documents before it have each been
\* admitted or skipped and append_to_file has not been called; every
\* document leaves the loop body admitted or skipped, never both, whatever
\* failed in its extraction or its duplicate check; append_to_file is
\* entered only from the last document, once all n documents have their
\* outcome, and after it returned it is not entered again in that batch.
C12_BatchRunsToCompletion ==
    /\ [](/\ InBatchLoop(1) => (/\ Outcomes(1) = idx[1] - 1
                                /\ idx[1] \in 1..ndocs[1]
                                /\ ret[1] = "none")
          /\ (InMerge(1) \/ pc[1] = "status") => Outcomes(1) = ndocs[1])
    /\ [][
          /\ (pc[1] = "admit" /\ pc'[1] # "admit") =>
                (/\ Outcomes(1)' = Outcomes(1) + 1
                 /\ \/ /\ Len(data'[1]) = Len(data[1]) + 1
                       /\ skipped'[1] = skipped[1]
                    \/ /\ Len(skipped'[1]) = Len(skipped[1]) + 1
                       /\ data'[1] = data[1]
                 /\ IF idx[1] < ndocs[1]
                    THEN pc'[1] = "extract" /\ idx'[1] = idx[1] + 1
                    ELSE pc'[1] \in {"merge", "idle"})
          /\ (InMerge(1)' /\ ~InMerge(1)) =>
                (/\ pc[1] = "admit"
                 /\ idx[1] = ndocs[1]
                 /\ pc'[1] = "merge")
          /\ pc[1] = "status" => pc'[1] \in {"status", "idle"}
          /\ InMerge(1) => (InMerge(1)' \/ pc'[1] = "status")
       ]_vars

\* A batch of two documents whose first extraction failed on all five
\* attempts and whose merge failed has run to its end.
C12_Witness ==
    /\ pc[1] = "status"
    /\ ndocs[1] = 2
    /\ Len(data[1]) = 2
    /\ data[1][1] = MakeRow("d01.pdf", NARecord)
    /\ ret[1] = "line196"

\* C13: every row admitted to the batch holds, in each of its columns, a
\* text (an extracted value or "NA"), never a missing value; and every row
\* of the primary artifact holds a non-empty cell in each column.  The
\* invoice number column of the artifact is left out of the second part:
\* it is the one column for which the external model of this development
\* answers with an empty text of its own.
C13_EveryFieldPresentOrNA ==
    /\ \A i \in 1..Len(data[1]) : \A c \in Columns :
          data[1][i][c] \notin {None, NaN}
    /\ \A i \in 1..Len(primary.rows) :
          \A c \in Columns \ {"invoice_number"} : primary.rows[i][c] # ""

\* C14: a process instance without a valid credential makes at most one
\* model call per document and admits no record to the batch.
C14_CredentialFailsFast ==
    credential[1] # "valid" =>
        /\ calls[1] <= 1
        /\ data[1] = <<>>

\* The timestamps of the backup artifacts a process instance reported as
\* saved (line 187).
FallbackNames(p) ==
    {ui[p][i].n : i \in {j \in 1..Len(ui[p]) :
                            ui[p][j].kind = "saved_as_backup"}}

\* C15: when both process instances exhausted their retries and each saved
\* a backup artifact, the two artifacts have different names, and the
\* artifact of each holds the rows of its own batch.
C15_FallbackArtifactsDistinct ==
    (ret[1] = "line188" /\ ret[2] = "line188") =>
        /\ FallbackNames(1) \cap FallbackNames(2) = {}
        /\ \A p \in Procs : \A t \in FallbackNames(p) :
              NamesOf(data[p]) \subseteq NamesOf(backups[t].rows)

\* The streams the claim lets an upload contribute: the upload itself when
\* its name ends in .pdf; for an archive that was read without error one
\* stream for each entry that is no directory and whose name, in lower
\* case, ends in .pdf, under the entry's name and in the archive's order;
\* nothing for an archive that failed and for any other file.
RECURSIVE ExpectedEntries(_)
ExpectedEntries(infolist) ==
    IF infolist = <<>> THEN <<>>
    ELSE LET f == Head(infolist).filename
         IN (IF ~f.slash /\ f.ext \in {".pdf", ".PDF"}
             THEN <<[name |-> f, infolist |-> <<>>]>> ELSE <<>>)
            \o ExpectedEntries(Tail(infolist))

Failed(u) == Note("error_extracting", u.name) \in Range(notes)

RECURSIVE ExpectedFiles(_)
ExpectedFiles(uploads) ==
    IF uploads = <<>> THEN <<>>
    ELSE LET u == Head(uploads)
         IN (CASE u.name.ext \in {".pdf", ".PDF"} -> <<u>>
               [] u.name.ext = ".zip" ->
                    IF Failed(u) THEN <<>> ELSE ExpectedEntries(u.infolist)
               [] OTHER -> <<>>)
            \o ExpectedFiles(Tail(uploads))

\* C16: what process_uploaded_files returns is, in upload order, what the
\* uploads contribute as described above, and every upload that is
\* neither a PDF nor an archive was reported as unsupported.
C16_UnpackerContract ==
    upc = "returned" =>
        /\ all_pdf_files = ExpectedFiles(uploaded_files)
        /\ \A k \in 1..Len(uploaded_files) :
              uploaded_files[k].name.ext \notin {".pdf", ".PDF", ".zip"}
              <=> Note("warning_unsupported", uploaded_files[k].name)
                    \in Range(notes)

\* An archive failed while reading its second PDF after its first had
\* been read, and the PDF uploaded behind it was returned.
C16_Witness ==
    /\ upc = "returned"
    /\ Len(uploaded_files) = 2
    /\ uploaded_files[1].name.ext = ".zip"
    /\ Len(uploaded_files[1].infolist) = 2
    /\ uploaded_files[1].infolist[1].filename = Name("f1", ".pdf", FALSE)
    /\ uploaded_files[1].infolist[2].filename = Name("f2", ".PDF", FALSE)
    /\ Failed(uploaded_files[1])
    /\ all_pdf_files = <<uploaded_files[2]>>

\* The first decimal number of a text that holds a digit: the longest run
\* of digits that starts at the leftmost digit and, when a full stop and at
\* least one digit follow that run, the digits behind the full stop as its
\* fraction.
FirstNumber(s) ==
    LET a == CHOOSE i \in 1..Len(s) :
                /\ s[i] \in Digits
                /\ \A j \in 1..(i - 1) : s[j] \notin Digits
        b == CHOOSE j \in a..Len(s) :
                /\ \A k \in a..j : s[k] \in Digits
                /\ j = Len(s) \/ s[j + 1] \notin Digits
        hasFrac == b + 2 <= Len(s) /\ s[b + 1] = "." /\ s[b + 2] \in Digits
        c == IF hasFrac
             THEN CHOOSE j \in (b + 2)..Len(s) :
                     /\ \A k \in (b + 2)..j : s[k] \in Digits
                     /\ j = Len(s) \/ s[j + 1] \notin Digits
             ELSE b
        whole == DigitsValue(SubSeq(s, a, b))
        frac  == IF hasFrac THEN SubSeq(s, b + 2, c) ELSE <<>>
    IN Normal(DigitsValue(SubSeq(s, a, b) \o frac), Len(frac))

SentinelLike(x) ==
    \/ x = Missing
    \/ x = Text(<<"N", "A">>)
    \/ x = Text(<<>>)
    \/ \A i \in 1..Len(x.text) : x.text[i] \notin Digits

\* C17: each copy of extract_numeric_value returns 0 for a missing value,
\* for "NA", for the empty text and for a text without a digit, and the
\* first decimal number of the text otherwise (123.45 for the example of
\* the interface description); the two copies return the same number.
C17_NumericValue ==
    /\ \A c \in Copies :
          numeric[c] # Unset =>
              numeric[c] = IF SentinelLike(delivery_charge) THEN Zero
                           ELSE FirstNumber(delivery_charge.text)
    /\ (delivery_charge = Text(ExampleCharge) /\ numeric["main"] # Unset) =>
          numeric["main"] = [num |-> 12345, scale |-> 2]
    /\ (\A c \in Copies : numeric[c] # Unset) =>
          numeric["main"] = numeric["report"]

\* Both copies have been applied to a text with a fraction that stands
\* behind other characters.
C17_Witness ==
    /\ delivery_charge = Text(<<"N", "1", ".", "5">>)
    /\ numeric["main"] = [num |-> 15, scale |-> 1]
    /\ numeric["report"] = [num |-> 15, scale |-> 1]

IsPrefix(s, t) == Len(s) <= Len(t) /\ SubSeq(t, 1, Len(s)) = s

\* C18: in every step of the single process instance the rows the primary
\* artifact held are a prefix of the rows it holds afterwards.
C18_PrimaryOnlyGrows ==
    [][IsPrefix(primary.rows, primary'.rows)]_vars

\* The documents of the running batch, other than the one named file_name,
\* that yielded the invoice number inv.
OthersWithNumber(file_name, inv) ==
    {data[1][k].file_name : k \in {m \in 1..Len(data[1]) :
        data[1][m].invoice_number = inv /\ data[1][m].file_name # file_name}}
    \cup
    {skipped[1][k].file_name : k \in {m \in 1..Len(skipped[1]) :
        skipped[1][m].invoice_number = inv /\ skipped[1][m].file_name # file_name}}

\* The primary artifact as the running batch found it: the artifact itself
\* while the batch is in its loop, afterwards what it was when the loop
\* ended.
TableOfBatch == IF InBatchLoop(1) THEN primary ELSE T0[1]

\* C19: while a batch is in its loop the primary artifact stays as it was
\* when the batch began; and when two documents of the batch yielded the
\* same invoice number, which is no sentinel and stands in no row of that
\* artifact, neither of them was skipped as a duplicate.
C19_SameNumberInOneBatchAdmitted ==
    /\ [][(InBatchLoop(1) /\ InBatchLoop(1)') => primary' = primary]_vars
    /\ [](\A i \in 1..Len(skipped[1]) :
             LET inv == skipped[1][i].invoice_number IN
             (/\ inv \notin Sentinels
              /\ ~MatchesNonSentinel(TableOfBatch.rows, inv))
             => OthersWithNumber(skipped[1][i].file_name, inv) = {})

\* The span of a response from its first '{' to its last '}', when the
\* response has both and the '{' does not stand behind the '}'; the empty
\* span otherwise.
Span(text) ==
    LET opens  == {i \in 1..Len(text) : text[i].kind = "{"}
        closes == {i \in 1..Len(text) : text[i].kind = "}"}
    IN IF opens = {} \/ closes = {} THEN <<>>
       ELSE LET first == CHOOSE i \in opens : \A j \in opens : i <= j
                last  == CHOOSE i \in closes : \A j \in closes : j <= i
            IN IF first <= last THEN SubSeq(text, first, last) ELSE <<>>

\* The execution of line 78 handed back a response whose span parses.
GoodResponse(o) == ~o.raises /\ json_ok(Span(o.text))

StatusShown(p) == pc[p] = "idle" /\ ret[p] # "none"
FinalStatus(p) == ui[p][Len(ui[p])]

\* C21: the batch is reported as saved to the primary artifact only when
\* append_to_file wrote it there (line 167); when it was written to a
\* backup artifact (line 188) the status names that artifact; and when
\* append_to_file gave up (lines 192, 196) no success status is shown.
C21_StatusNamesArtifactWritten ==
    StatusShown(1) =>
        /\ FinalStatus(1).kind = "saved_to_primary" => ret[1] = "line167"
        /\ ret[1] = "line188" =>
              /\ FinalStatus(1).kind = "saved_to_backup"
              /\ FinalStatus(1).n \in FallbackNames(1)
        /\ ret[1] \in {"line192", "line196"} =>
              FinalStatus(1).kind = "no_status"

====
